---- MODULE Spec2Model ----
(***************************************************************************)
(* Model of etl_pipeline.py: the star-schema builder (create_star_schema), *)
(* the database deployer (deploy_to_database) and the orchestration        *)
(* (main and the __main__ block).                                          *)
(*                                                                         *)
(* A DataFrame is a record [cols, index, data]: the set of column names,   *)
(* the sequence of row labels and the sequence of rows, each row a         *)
(* function from cols to cell values.  Cell values are integers: NA        *)
(* stands for a missing cell (NaN), categorical values are 1..NumVals,     *)
(* dates are encoded YYYYMM, measures carry a number derived from the      *)
(* row's original label.                                                   *)
(***************************************************************************)
EXTENDS Integers, Sequences, FiniteSets, TLC

VARIABLES
    pc,            \* position of the program
    deploy_mode,   \* '--deploy' in sys.argv
    df,            \* the working table of main (df, df_clean, df_filtered, df_final)
    fact_table,    \* fact table returned by create_star_schema
    dim_tables,    \* dict name -> dimension table, in insertion order
    schema_raised, \* create_star_schema raised instead of returning
    stages,        \* the stages main has executed, with their outcomes
    store,         \* the relational store: table name -> state
    written,       \* table names replaced by this deployment, in order
    queried,       \* table names the verification has queried, in order
    conn_open,     \* explicit connections currently open
    conn_opened,   \* engine.connect() calls made so far
    test_ok,       \* the SELECT 1 round trip has succeeded
    dim_pos,       \* loop position in the dimension / verification loops
    deploy_failed_at, \* the deployment step that raised, or "none"
    deploy_result, \* return value of deploy_to_database: "none", "True", "False"
    main_result,   \* return value of main: "none", "True", "False"
    exit_code      \* process exit status, -1 while running

vars == <<pc, deploy_mode, df, fact_table, dim_tables, schema_raised, stages,
          store, written, queried, conn_open, conn_opened, test_ok, dim_pos,
          deploy_failed_at, deploy_result, main_result, exit_code>>

(* ------------------------------ bounds -------------------------------- *)

\* most rows of an input table built on the scenario's rows
MaxRows == 4
\* most rows of an input table whose dimension values are all enumerated
MaxFreeRows == 2
\* number of distinct values a categorical or date column can take
NumVals == 2

(* --------------------------- column names ----------------------------- *)

NA == 0

Measures == <<"loan_amnt", "funded_amnt", "term", "int_rate", "installment">>

DimSources == <<"home_ownership", "loan_status", "issue_d">>

KeyColumn(c) ==
    CASE c = "home_ownership" -> "home_ownership_id"
      [] c = "loan_status"    -> "loan_status_id"
      [] c = "issue_d"        -> "issue_d_id"

DimName(c) ==
    CASE c = "home_ownership" -> "home_ownership_dim_yourname"
      [] c = "loan_status"    -> "loan_status_dim_yourname"
      [] c = "issue_d"        -> "issue_d_dim_yourname"

fact_columns ==
    Measures \o <<"home_ownership_id", "loan_status_id", "issue_d_id">>

Range(s) == {s[i] : i \in 1..Len(s)}

(* ------------------------- DataFrame operations ----------------------- *)

EmptyTable == [cols |-> {}, index |-> <<>>, data |-> <<>>]

NRows(t) == Len(t.index)

\* t[c]: the column as a sequence of values, by position
ColumnValues(t, c) == [i \in 1..NRows(t) |-> t.data[i][c]]

\* t[[c1, ...]] raises KeyError when a requested column is absent
SelectRaises(t, cs) == ~(cs \subseteq t.cols)

\* t[[c1, ...]]: the listed columns, rows and labels kept
Select(t, cs) ==
    [cols  |-> cs \cap t.cols,
     index |-> t.index,
     data  |-> [i \in 1..NRows(t) |-> [c \in cs \cap t.cols |-> t.data[i][c]]]]

\* positions of the rows that no earlier row equals
FirstOccurrences(t) ==
    {i \in 1..NRows(t) : \A j \in 1..(i - 1) : t.data[j] # t.data[i]}

\* positions of the rows that no later row equals
LastOccurrences(t) ==
    {i \in 1..NRows(t) : \A j \in (i + 1)..NRows(t) : t.data[j] # t.data[i]}

RECURSIVE SortedSeq(_)
\* the elements of a finite set of integers in increasing order
SortedSeq(S) ==
    IF S = {} THEN <<>>
    ELSE LET m == CHOOSE x \in S : \A y \in S : x <= y
         IN <<m>> \o SortedSeq(S \ {m})

\* the rows at the given positions, in table order, labels kept
TakeRows(t, keep) ==
    LET pos == SortedSeq(keep)
    IN [cols  |-> t.cols,
        index |-> [k \in 1..Len(pos) |-> t.index[pos[k]]],
        data  |-> [k \in 1..Len(pos) |-> t.data[pos[k]]]]

\* fault: drop_duplicates(keep='last')
DropDuplicatesKeepLast(t) == TakeRows(t, LastOccurrences(t))

\* t.drop_duplicates(): keep='first', original labels kept
DropDuplicates(t) == TakeRows(t, FirstOccurrences(t))

\* fault: the reset_index call left out
KeepIndex(t) == t

\* t.reset_index(drop=True): labels become 0..n-1
ResetIndex(t) == [t EXCEPT !.index = [i \in 1..NRows(t) |-> i - 1]]

\* t.index + 1
IndexPlusOne(t) == [i \in 1..NRows(t) |-> t.index[i] + 1]

\* t[c] = vals (positional: vals carries t's own index)
AssignColumn(t, c, vals) ==
    [cols  |-> t.cols \cup {c},
     index |-> t.index,
     data  |-> [i \in 1..NRows(t) |->
                  [x \in t.cols \cup {c} |->
                     IF x = c THEN vals[i] ELSE t.data[i][x]]]]

\* dim.set_index(c)[k].to_dict(): value -> key, a later row overwriting an earlier
ToDict(dim, c, k) ==
    [v \in Range(ColumnValues(dim, c)) |->
        LET last == CHOOSE i \in 1..NRows(dim) :
                       /\ dim.data[i][c] = v
                       /\ \A j \in (i + 1)..NRows(dim) : dim.data[j][c] # v
        IN dim.data[last][k]]

\* fault: keys looked up one off from the keys of the dimension table
MapSeriesShifted(vals, m) ==
    [i \in 1..Len(vals) |-> IF vals[i] \in DOMAIN m THEN m[vals[i]] + 1 ELSE NA]

\* series.map(dict): a value that is no key of the dict becomes NaN
MapSeries(vals, m) ==
    [i \in 1..Len(vals) |-> IF vals[i] \in DOMAIN m THEN m[vals[i]] ELSE NA]

\* datetime accessors on the YYYYMM encoding
MonthOf(d) == d % 100
YearOf(d) == d \div 100
QuarterOf(d) == ((MonthOf(d) - 1) \div 3) + 1

(* ------------------------- create_star_schema ------------------------- *)

\* t[k] = t.index + 1
AddKey(t, k) == AssignColumn(t, k, IndexPlusOne(t))

\* df[[c]].drop_duplicates().reset_index(drop=True), then the key column index + 1
BuildDimension(df0, c) ==
    AddKey(ResetIndex(DropDuplicates(Select(df0, {c}))), KeyColumn(c))

\* dim_tables[name] = dim and fact_data[key] = fact_data[c].map(value -> key)
RegisterDimension(st, c, dim) ==
    LET m == ToDict(dim, c, KeyColumn(c))
    IN [st EXCEPT
          !.dims = Append(@, [name |-> DimName(c), table |-> dim]),
          !.fact_data = AssignColumn(@, KeyColumn(c),
                                     MapSeries(ColumnValues(@, c), m))]

\* 1. Home Ownership Dimension
HomeOwnershipBlock(df0, st) ==
    IF "home_ownership" \in df0.cols
    THEN RegisterDimension(st, "home_ownership", BuildDimension(df0, "home_ownership"))
    ELSE st

\* 2. Loan Status Dimension
LoanStatusBlock(df0, st) ==
    IF "loan_status" \in df0.cols
    THEN RegisterDimension(st, "loan_status", BuildDimension(df0, "loan_status"))
    ELSE st

\* 3. Issue Date Dimension, with month, year and quarter of each distinct date
\* (issue_d holds dates: main passes it through the date filter first)
IssueDateBlock(df0, st) ==
    IF "issue_d" \in df0.cols
    THEN LET d0 == BuildDimension(df0, "issue_d")
             dates == ColumnValues(d0, "issue_d")
             d1 == AssignColumn(d0, "month", [i \in 1..Len(dates) |-> MonthOf(dates[i])])
             d2 == AssignColumn(d1, "year", [i \in 1..Len(dates) |-> YearOf(dates[i])])
             d3 == AssignColumn(d2, "quarter", [i \in 1..Len(dates) |-> QuarterOf(dates[i])])
         IN RegisterDimension(st, "issue_d", d3)
    ELSE st

\* fault: the presence test on fact_columns left out
AllFactColumns(fact_data) == fact_columns

\* [col for col in fact_columns if col in fact_data.columns]
AvailableColumns(fact_data) ==
    LET Present(col) == col \in fact_data.cols
    IN SelectSeq(fact_columns, Present)

\* 4. Create Fact Table: the available columns, a fresh index, fact_id
BuildFactTable(st, available_columns) ==
    [fact_table |-> AddKey(ResetIndex(Select(st.fact_data, Range(available_columns))),
                           "fact_id"),
     dim_tables |-> st.dims,
     raised     |-> SelectRaises(st.fact_data, Range(available_columns))]

\* create_star_schema(df): [fact_table, dim_tables, raised]
CreateStarSchema(df0) ==
    LET s0 == [dims |-> <<>>, fact_data |-> df0]
        s3 == IssueDateBlock(df0, LoanStatusBlock(df0, HomeOwnershipBlock(df0, s0)))
    IN BuildFactTable(s3, AvailableColumns(s3.fact_data))

\* the table stored under a name of the dim_tables dict
DimTable(dims, name) ==
    LET i == CHOOSE i \in 1..Len(dims) : dims[i].name = name
    IN dims[i].table

DimNames(dims) == {dims[i].name : i \in 1..Len(dims)}

(* ----------------------- inputs of the builder ------------------------ *)

CategoryValues == 1..NumVals

\* the first day of every third month from January 2018, encoded YYYYMM
DateValues == {201800 + (3 * k) - 2 : k \in 1..NumVals}

ValuesOf(c) == IF c = "issue_d" THEN DateValues ELSE CategoryValues

\* columns an input may carry under the names the builder gives its own columns
ExtraCols == {"home_ownership_id", "loan_status_id", "issue_d_id", "fact_id"}

\* the number a non-dimension cell carries: it identifies the row it came from
Payload(label) == 1000 * (label + 1)

MkTable(cols, idx, dv) ==
    [cols  |-> cols,
     index |-> idx,
     data  |-> [i \in 1..Len(idx) |->
                  [c \in cols |-> IF c \in Range(DimSources)
                                  THEN dv[c][i] ELSE Payload(idx[i])]]]

\* row labels left by the filters: increasing, drawn from 0..MaxFreeRows
IndexChoices(k) ==
    {SortedSeq(S) : S \in {T \in SUBSET (0..MaxFreeRows) : Cardinality(T) = k}}

\* the spec's scenario: RENT, OWN, RENT / Current, Current, Default / two dates
SampleValue(c, i) ==
    CASE c = "home_ownership" -> IF i % 2 = 1 THEN 1 ELSE 2
      [] c = "loan_status"    -> IF i <= 2 THEN 1 ELSE 2
      [] c = "issue_d"        -> IF i <= 2 THEN 201801 ELSE 201804

\* the input is the scenario's rows under some combination of present and
\* absent columns
ColumnCase ==
    \E cols \in SUBSET (Range(DimSources) \cup Range(Measures) \cup ExtraCols),
       k \in 0..MaxRows :
        df = MkTable(cols, [i \in 1..k |-> (2 * i) - 1],
                     [c \in Range(DimSources) |-> [i \in 1..k |-> SampleValue(c, i)]])

\* the value sequences a dimension column of k rows can hold (one, empty, if absent)
ColumnChoices(c, present, k) ==
    IF c \in present THEN [1..k -> ValuesOf(c)] ELSE {<<>>}

\* the input holds all measures, an unrelated column and some assignment of
\* values to the dimension columns present
ValueCase ==
    \E present \in SUBSET Range(DimSources), k \in 0..MaxFreeRows :
      \E idx \in IndexChoices(k),
         h \in ColumnChoices("home_ownership", present, k),
         s \in ColumnChoices("loan_status", present, k),
         d \in ColumnChoices("issue_d", present, k) :
        df = MkTable(present \cup Range(Measures) \cup {"id"}, idx,
                     [c \in present |-> CASE c = "home_ownership" -> h
                                          [] c = "loan_status"    -> s
                                          [] c = "issue_d"        -> d])

\* df is a table without a missing cell, as main passes it to create_star_schema
CleanedInput == ColumnCase \/ ValueCase

(* ---------------- specification of the builder alone ------------------ *)

NoDeployState ==
    /\ deploy_mode = FALSE
    /\ stages = <<>>
    /\ store = <<>>
    /\ written = <<>>
    /\ queried = <<>>
    /\ conn_open = 0
    /\ conn_opened = 0
    /\ test_ok = FALSE
    /\ dim_pos = 0
    /\ deploy_failed_at = "none"
    /\ deploy_result = "none"
    /\ main_result = "none"
    /\ exit_code = -1

InitSchema ==
    /\ pc = "schema_call"
    /\ CleanedInput
    /\ fact_table = EmptyTable
    /\ dim_tables = <<>>
    /\ schema_raised = FALSE
    /\ NoDeployState

\* fact_table, dim_tables = create_star_schema(df)
CallCreateStarSchema ==
    /\ pc = "schema_call"
    /\ \E r \in {CreateStarSchema(df)} :
          /\ fact_table' = r.fact_table
          /\ dim_tables' = r.dim_tables
          /\ schema_raised' = r.raised
    /\ pc' = "schema_returned"
    /\ UNCHANGED <<deploy_mode, df, stages, store, written, queried, conn_open,
                   conn_opened, test_ok, dim_pos, deploy_failed_at,
                   deploy_result, main_result, exit_code>>

NextSchema == CallCreateStarSchema

SpecSchema == InitSchema /\ [][NextSchema]_vars

(* --------------------- collaborators of main -------------------------- *)

\* max_null_percentage passed to clean_missing_values
MaxNullPercentage == 30

NullCount(t, c) == Cardinality({i \in 1..NRows(t) : t.data[i][c] = NA})

\* clean_missing_values(df, max_null_percentage): the columns whose share of
\* missing cells exceeds the threshold are removed
CleanMissingValues(t, max_null_percentage) ==
    Select(t, {c \in t.cols :
                 NullCount(t, c) * 100 <= max_null_percentage * NRows(t)})

\* filter_issue_date_range(df): the rows whose issue_d lies in the valid range
FilterIssueDateRange(t, lo, hi) ==
    TakeRows(t, {i \in 1..NRows(t) :
                   /\ t.data[i]["issue_d"] # NA
                   /\ lo <= t.data[i]["issue_d"]
                   /\ t.data[i]["issue_d"] <= hi})

\* df.dropna(): the rows without a missing cell
DropNA(t) ==
    TakeRows(t, {i \in 1..NRows(t) : \A c \in t.cols : t.data[i][c] # NA})

\* columns of the file in which the first record may lack its value
NullableCols == {"home_ownership", "issue_d", "loan_amnt"}

\* contents of data/LoanStats_web_small.csv: the scenario's rows, RangeIndex
RawTables ==
    {LET t == MkTable(Range(DimSources) \cup Range(Measures) \cup {"id"},
                      [i \in 1..k |-> i - 1],
                      [c \in Range(DimSources) |-> [i \in 1..k |-> SampleValue(c, i)]])
     IN [t EXCEPT !.data = [i \in 1..k |->
                              [c \in t.cols |->
                                 IF i = 1 /\ c \in missing THEN NA ELSE t.data[i][c]]]] :
        k \in 0..MaxRows, missing \in SUBSET NullableCols}

(* ------------------------------- main --------------------------------- *)

StageOrder ==
    <<"type_analysis", "loader", "cleaner", "date_filter",
      "completeness_filter", "schema_builder", "reporter", "deployer">>

StoreNames ==
    {DimName(c) : c \in Range(DimSources)} \cup {"loans_fact_yourname", "loans_fact"}

Init ==
    /\ pc = "analyze"
    /\ deploy_mode \in BOOLEAN
    /\ df = EmptyTable
    /\ fact_table = EmptyTable
    /\ dim_tables = <<>>
    /\ schema_raised = FALSE
    /\ stages = <<>>
    /\ store \in [StoreNames -> {"absent", "stale"}]
    /\ written = <<>>
    /\ queried = <<>>
    /\ conn_open = 0
    /\ conn_opened = 0
    /\ test_ok = FALSE
    /\ dim_pos = 0
    /\ deploy_failed_at = "none"
    /\ deploy_result = "none"
    /\ main_result = "none"
    /\ exit_code = -1

DeployVars == <<store, written, queried, conn_open, conn_opened, test_ok,
                dim_pos, deploy_failed_at, deploy_result>>

SchemaVars == <<fact_table, dim_tables, schema_raised>>

Ran(stage, outcome) == Append(stages, [stage |-> stage, outcome |-> outcome])

\* except Exception in main: the failure is reported and main returns False
MainExcept(stage) ==
    /\ stages' = Ran(stage, "raised")
    /\ main_result' = "False"
    /\ pc' = "main_returned"

\* fault: the success flag of the analysis not tested
IgnoreAnalysisFailure(success) == "load"

\* if not success: return False
AfterAnalysis(success) == IF success THEN "load" ELSE "main_returned"

\* Step 1: success, column_types = guess_column_types(data_file)
Analyze ==
    /\ pc = "analyze"
    /\ \/ \E success \in BOOLEAN :
            /\ stages' = Ran("type_analysis", IF success THEN "ok" ELSE "failed")
            /\ pc' = AfterAnalysis(success)
            /\ main_result' = IF pc' = "main_returned" THEN "False" ELSE main_result
       \/ MainExcept("type_analysis")
    /\ UNCHANGED <<deploy_mode, df, SchemaVars, DeployVars, exit_code>>

\* Step 2: df = pd.read_csv(data_file)
Load ==
    /\ pc = "load"
    /\ \/ /\ df' \in RawTables
          /\ stages' = Ran("loader", "ok")
          /\ pc' = "clean"
          /\ UNCHANGED main_result
       \/ MainExcept("loader") /\ UNCHANGED df
    /\ UNCHANGED <<deploy_mode, SchemaVars, DeployVars, exit_code>>

\* Step 3: df_clean = clean_missing_values(df, max_null_percentage=30)
Clean ==
    /\ pc = "clean"
    /\ \/ /\ df' = CleanMissingValues(df, MaxNullPercentage)
          /\ stages' = Ran("cleaner", "ok")
          /\ pc' = "filter"
          /\ UNCHANGED main_result
       \/ MainExcept("cleaner") /\ UNCHANGED df
    /\ UNCHANGED <<deploy_mode, SchemaVars, DeployVars, exit_code>>

\* Step 4: the date filter, only if 'issue_d' in df_clean.columns
Filter ==
    /\ pc = "filter"
    /\ IF "issue_d" \in df.cols
       THEN \/ \E lo, hi \in DateValues :
                 /\ df' = FilterIssueDateRange(df, lo, hi)
                 /\ stages' = Ran("date_filter", "ok")
                 /\ pc' = "dropna"
                 /\ UNCHANGED main_result
            \/ MainExcept("date_filter") /\ UNCHANGED df
       ELSE /\ pc' = "dropna"
            /\ UNCHANGED <<df, stages, main_result>>
    /\ UNCHANGED <<deploy_mode, SchemaVars, DeployVars, exit_code>>

\* Step 5: df_final = df_filtered.dropna()
FinalCleanup ==
    /\ pc = "dropna"
    /\ df' = DropNA(df)
    /\ stages' = Ran("completeness_filter", "ok")
    /\ pc' = "schema"
    /\ UNCHANGED <<deploy_mode, SchemaVars, DeployVars, main_result, exit_code>>

\* Step 6: fact_table, dim_tables = create_star_schema(df_final)
BuildSchema ==
    /\ pc = "schema"
    /\ \E r \in {CreateStarSchema(df)} :
          IF r.raised
          THEN /\ schema_raised' = TRUE
               /\ MainExcept("schema_builder")
               /\ UNCHANGED <<fact_table, dim_tables>>
          ELSE /\ fact_table' = r.fact_table
               /\ dim_tables' = r.dim_tables
               /\ stages' = Ran("schema_builder", "ok")
               /\ pc' = "report"
               /\ UNCHANGED <<schema_raised, main_result>>
    /\ UNCHANGED <<deploy_mode, df, DeployVars, exit_code>>

\* Step 7: show_etl_results(fact_table, dim_tables); then if deploy_mode
Report ==
    /\ pc = "report"
    /\ stages' = Ran("reporter", "ok")
    /\ pc' = IF deploy_mode THEN "deploy_call" ELSE "finish"
    /\ UNCHANGED <<deploy_mode, df, SchemaVars, DeployVars, main_result, exit_code>>

(* ------------------------ deploy_to_database -------------------------- *)

KeyList(dims) == [i \in 1..Len(dims) |-> dims[i].name]

\* fault: the fact table written before the dimension tables
FactFirstOrder(dims) == <<"loans_fact_yourname">> \o KeyList(dims)

\* the to_sql calls in program order: every dimension table, then the fact table
DeployOrder(dims) == KeyList(dims) \o <<"loans_fact_yourname">>

\* the tables whose rows the verification counts
VerifyNames(dims) == KeyList(dims) \o <<"loans_fact">>

\* fault: create_engine called before the try block
TryWithoutEngine ==
    {"connect", "test_query", "to_sql_dim", "to_sql_fact", "verify_connect",
     "verify_query"}

\* the steps inside the try block of deploy_to_database
DeployTrySteps ==
    {"create_engine", "connect", "test_query", "to_sql_dim", "to_sql_fact",
     "verify_connect", "verify_query"}

\* fault: the connection used without a with block
LeaveOpen(n) == n

\* leaving a 'with engine.connect() as connection' block closes the connection
CloseOnExit(n) == n - 1

SetLastOutcome(outcome) ==
    [stages EXCEPT ![Len(stages)] = [@ EXCEPT !.outcome = outcome]]

\* a deployment step raises: except Exception returns False; an exception
\* raised outside the try block would reach main's handler instead
DeployRaise(step) ==
    /\ deploy_failed_at' = step
    /\ IF step \in DeployTrySteps
       THEN /\ deploy_result' = "False"
            /\ pc' = "deploy_returned"
            /\ UNCHANGED <<stages, main_result>>
       ELSE /\ stages' = SetLastOutcome("raised")
            /\ main_result' = "False"
            /\ pc' = "main_returned"
            /\ UNCHANGED deploy_result

\* Step 8: success = deploy_to_database(fact_table, dim_tables)
CallDeploy ==
    /\ pc = "deploy_call"
    /\ stages' = Ran("deployer", "running")
    /\ pc' = "create_engine"
    /\ UNCHANGED <<deploy_mode, df, SchemaVars, DeployVars, main_result, exit_code>>

\* engine = create_engine(connection_string)
CreateEngine ==
    /\ pc = "create_engine"
    /\ \/ /\ pc' = "connect"
          /\ UNCHANGED <<stages, main_result, deploy_failed_at, deploy_result>>
       \/ DeployRaise("create_engine")
    /\ UNCHANGED <<deploy_mode, df, SchemaVars, store, written, queried,
                   conn_open, conn_opened, test_ok, dim_pos, exit_code>>

\* with engine.connect() as connection: (the connectivity test)
Connect ==
    /\ pc = "connect"
    /\ \/ /\ conn_open' = conn_open + 1
          /\ conn_opened' = conn_opened + 1
          /\ pc' = "test_query"
          /\ UNCHANGED <<stages, main_result, deploy_failed_at, deploy_result>>
       \/ /\ DeployRaise("connect")
          /\ UNCHANGED <<conn_open, conn_opened>>
    /\ UNCHANGED <<deploy_mode, df, SchemaVars, store, written, queried,
                   test_ok, dim_pos, exit_code>>

\* connection.execute(text("SELECT 1 as test")), then the with block is left
TestQuery ==
    /\ pc = "test_query"
    /\ conn_open' = CloseOnExit(conn_open)
    /\ \/ /\ test_ok' = TRUE
          /\ dim_pos' = 1
          /\ pc' = IF Len(dim_tables) = 0 THEN "deploy_fact" ELSE "deploy_dims"
          /\ UNCHANGED <<stages, main_result, deploy_failed_at, deploy_result>>
       \/ /\ DeployRaise("test_query")
          /\ UNCHANGED <<test_ok, dim_pos>>
    /\ UNCHANGED <<deploy_mode, df, SchemaVars, store, written, queried,
                   conn_opened, exit_code>>

\* what a to_sql(if_exists='replace') that raises leaves of the table: the
\* table as it was, or the old table dropped and not created again
FailedReplaceOutcomes(state) ==
    IF state = "absent" THEN {"absent"} ELSE {state, "dropped"}

\* name.to_sql(..., if_exists='replace'): the table is replaced, or the call raises
ToSql(name, step, next) ==
    \/ /\ store' = [store EXCEPT ![name] = "fresh"]
       /\ written' = Append(written, name)
       /\ dim_pos' = dim_pos + 1
       /\ pc' = next
       /\ UNCHANGED <<stages, main_result, deploy_failed_at, deploy_result>>
    \/ /\ \E left \in FailedReplaceOutcomes(store[name]) :
            store' = [store EXCEPT ![name] = left]
       /\ DeployRaise(step)
       /\ UNCHANGED <<written, dim_pos>>

\* for table_name, dim_df in dim_tables.items(): dim_df.to_sql(table_name, ...)
DeployDimension ==
    /\ pc = "deploy_dims"
    /\ ToSql(DeployOrder(dim_tables)[dim_pos], "to_sql_dim",
             IF dim_pos = Len(dim_tables) THEN "deploy_fact" ELSE "deploy_dims")
    /\ UNCHANGED <<deploy_mode, df, SchemaVars, queried, conn_open,
                   conn_opened, test_ok, exit_code>>

\* fact_table.to_sql('loans_fact_yourname', ...)
DeployFact ==
    /\ pc = "deploy_fact"
    /\ ToSql(DeployOrder(dim_tables)[dim_pos], "to_sql_fact", "verify_connect")
    /\ UNCHANGED <<deploy_mode, df, SchemaVars, queried, conn_open,
                   conn_opened, test_ok, exit_code>>

\* with engine.connect() as connection: (the verification)
VerifyConnect ==
    /\ pc = "verify_connect"
    /\ \/ /\ conn_open' = conn_open + 1
          /\ conn_opened' = conn_opened + 1
          /\ dim_pos' = 1
          /\ pc' = "verify_query"
          /\ UNCHANGED <<stages, main_result, deploy_failed_at, deploy_result>>
       \/ /\ DeployRaise("verify_connect")
          /\ UNCHANGED <<conn_open, conn_opened, dim_pos>>
    /\ UNCHANGED <<deploy_mode, df, SchemaVars, store, written, queried,
                   test_ok, exit_code>>

\* SELECT COUNT(*) FROM table_name raises when the store has no such table
TableExists(name) == store[name] \in {"stale", "fresh"}

\* for table_name in list(dim_tables.keys()) + ['loans_fact']: count its rows;
\* after the last one the with block is left and the function returns True
VerifyQuery ==
    /\ pc = "verify_query"
    /\ LET name == VerifyNames(dim_tables)[dim_pos]
           last == dim_pos = Len(VerifyNames(dim_tables))
       IN /\ queried' = Append(queried, name)
          /\ \/ /\ TableExists(name)
                /\ dim_pos' = dim_pos + 1
                /\ conn_open' = IF last THEN CloseOnExit(conn_open) ELSE conn_open
                /\ deploy_result' = IF last THEN "True" ELSE deploy_result
                /\ pc' = IF last THEN "deploy_returned" ELSE "verify_query"
                /\ UNCHANGED <<stages, main_result, deploy_failed_at>>
             \/ /\ conn_open' = CloseOnExit(conn_open)
                /\ DeployRaise("verify_query")
                /\ UNCHANGED dim_pos
    /\ UNCHANGED <<deploy_mode, df, SchemaVars, store, written, conn_opened,
                   test_ok, exit_code>>

\* fault: the result of deploy_to_database not tested
IgnoreDeployFailure(success) == "finish"

\* if not success: return False
AfterDeploy(success) == IF success THEN "finish" ELSE "main_returned"

\* deploy_to_database has returned to main
DeployReturn ==
    /\ pc = "deploy_returned"
    /\ stages' = SetLastOutcome(IF deploy_result = "True" THEN "ok" ELSE "failed")
    /\ pc' = AfterDeploy(deploy_result = "True")
    /\ main_result' = IF pc' = "main_returned" THEN "False" ELSE main_result
    /\ UNCHANGED <<deploy_mode, df, SchemaVars, DeployVars, exit_code>>

\* the closing report of main, return True
Finish ==
    /\ pc = "finish"
    /\ main_result' = "True"
    /\ pc' = "main_returned"
    /\ UNCHANGED <<deploy_mode, df, SchemaVars, DeployVars, stages, exit_code>>

\* sys.exit(0 if success else 1)
ExitStatus(success) == IF success THEN 0 ELSE 1

\* success = main(); sys.exit(...)
Exit ==
    /\ pc = "main_returned"
    /\ exit_code' = ExitStatus(main_result = "True")
    /\ pc' = "exited"
    /\ UNCHANGED <<deploy_mode, df, SchemaVars, DeployVars, stages, main_result>>

Next ==
    \/ Analyze
    \/ Load
    \/ Clean
    \/ Filter
    \/ FinalCleanup
    \/ BuildSchema
    \/ Report
    \/ CallDeploy
    \/ CreateEngine
    \/ Connect
    \/ TestQuery
    \/ DeployDimension
    \/ DeployFact
    \/ VerifyConnect
    \/ VerifyQuery
    \/ DeployReturn
    \/ Finish
    \/ Exit

Spec == Init /\ [][Next]_vars

(* ------------------- properties of create_star_schema ----------------- *)

\* create_star_schema has returned for the input df
SchemaBuilt == pc = "schema_returned"

PresentSources == Range(DimSources) \cap df.cols

\* the distinct values of column c of the input
DistinctValues(c) == Range(ColumnValues(df, c))

\* position of the first input row holding v in column c
FirstPosition(c, v) ==
    CHOOSE i \in 1..NRows(df) :
        /\ df.data[i][c] = v
        /\ \A j \in 1..(i - 1) : df.data[j][c] # v

\* C1: for each dimension source column present in the input, every fact row
\* carries a key that exists in the dimension table, and the dimension row
\* with that key holds the value the same input row had in the source column.
C1_KeysResolve ==
    SchemaBuilt =>
      \A c \in PresentSources :
        /\ DimName(c) \in DimNames(dim_tables)
        /\ KeyColumn(c) \in fact_table.cols
        /\ NRows(fact_table) = NRows(df)
        /\ LET dim == DimTable(dim_tables, DimName(c))
           IN \A i \in 1..NRows(df) :
                LET k == fact_table.data[i][KeyColumn(c)]
                IN /\ k # NA
                   /\ \E r \in 1..NRows(dim) : dim.data[r][KeyColumn(c)] = k
                   /\ \A r \in 1..NRows(dim) :
                        dim.data[r][KeyColumn(c)] = k
                            => dim.data[r][c] = df.data[i][c]

\* all three dimensions built, and two fact rows that differ in a key
C1_Witness ==
    /\ SchemaBuilt
    /\ PresentSources = Range(DimSources)
    /\ \E i, j \in 1..NRows(fact_table) :
         fact_table.data[i]["loan_status_id"] # fact_table.data[j]["loan_status_id"]

\* C2: for each dimension source column present, the dimension table has one
\* row per distinct input value, its keys are 1..n in row order, and key k
\* belongs to the k-th distinct value in first-occurrence order.
C2_DimensionKeys ==
    SchemaBuilt =>
      \A c \in PresentSources :
        /\ DimName(c) \in DimNames(dim_tables)
        /\ LET dim == DimTable(dim_tables, DimName(c))
               n == Cardinality(DistinctValues(c))
           IN /\ NRows(dim) = n
              /\ {dim.data[r][c] : r \in 1..n} = DistinctValues(c)
              /\ \A r \in 1..n :
                   /\ dim.data[r][KeyColumn(c)] = r
                   /\ r = Cardinality({w \in DistinctValues(c) :
                            FirstPosition(c, w) <= FirstPosition(c, dim.data[r][c])})

\* a column whose first value comes back in the third row, two distinct values
C2_Witness ==
    /\ SchemaBuilt
    /\ "home_ownership" \in df.cols
    /\ NRows(df) = 3
    /\ df.data[1]["home_ownership"] = df.data[3]["home_ownership"]
    /\ NRows(DimTable(dim_tables, "home_ownership_dim_yourname")) = 2

\* C3: the fact table has one row per input row, in the input's order, and
\* fact_id is 1..N whatever labels the input's index carries.
C3_FactIds ==
    SchemaBuilt =>
      /\ NRows(fact_table) = NRows(df)
      /\ "fact_id" \in fact_table.cols
      /\ \A i \in 1..NRows(df) :
           /\ fact_table.data[i]["fact_id"] = i
           /\ \A m \in Range(Measures) \cap df.cols :
                /\ m \in fact_table.cols
                /\ fact_table.data[i][m] = df.data[i][m]

\* an input of several rows whose index does not start at 0
C3_Witness ==
    /\ SchemaBuilt
    /\ NRows(df) >= 2
    /\ df.index[1] # 0
    /\ "loan_amnt" \in df.cols
    /\ fact_table.data[2]["fact_id"] = 2

StageRank(stage) == CHOOSE k \in 1..Len(StageOrder) : StageOrder[k] = stage

StageOutcome(stage) ==
    IF \E i \in 1..Len(stages) : stages[i].stage = stage
    THEN LET i == CHOOSE i \in 1..Len(stages) : stages[i].stage = stage
         IN stages[i].outcome
    ELSE "not run"

\* C4: the exit status is 0 or 1, and it is 0 exactly when type inference
\* succeeded, no stage raised, and deployment was not requested or
\* deploy_to_database returned True.
C4_ExitStatus ==
    pc = "exited" =>
      /\ exit_code \in {0, 1}
      /\ exit_code = 0 <=>
           /\ StageOutcome("type_analysis") = "ok"
           /\ \A i \in 1..Len(stages) : stages[i].outcome # "raised"
           /\ deploy_mode => deploy_result = "True"

\* a run whose every analysis stage succeeded and whose deployment failed
C4_Witness ==
    /\ pc = "exited"
    /\ exit_code = 1
    /\ deploy_mode
    /\ StageOutcome("reporter") = "ok"
    /\ deploy_result = "False"

\* a run with deployment requested that ends with status 0
C4_WitnessSuccess ==
    /\ pc = "exited"
    /\ exit_code = 0
    /\ deploy_mode

\* C5: when a step of deploy_to_database raises, the function returns False,
\* the exception does not reach main's handler, and every table replaced
\* before the failing step is still the replaced one.
C5_DeployFailureCaught ==
    /\ deploy_failed_at # "none" =>
         /\ deploy_result = "False"
         /\ StageOutcome("deployer") # "raised"
    /\ \A i \in 1..Len(written) : store[written[i]] = "fresh"

\* the fact write raised after the dimension tables had been replaced
C5_Witness ==
    /\ pc = "exited"
    /\ deploy_failed_at = "to_sql_fact"
    /\ Len(written) >= 1
    /\ deploy_result = "False"

\* C6: verification queries only tables this deployment wrote, and after a
\* complete verification the queried names are exactly the written names.
C6_VerifiesWhatWasWritten ==
    /\ Range(queried) \subseteq Range(written)
    /\ deploy_result = "True" => Range(queried) = Range(written)

\* C7 as amended: at most one explicit connection is open at any time, at
\* most two are opened per deployment attempt (connectivity test, then
\* verification), and none is open once the function has returned.
C7_ConnectionsReleased ==
    /\ conn_open \in {0, 1}
    /\ conn_opened <= 2
    /\ deploy_result # "none" => conn_open = 0
    /\ deploy_failed_at # "none" => conn_open = 0

\* a deployment that returned True after opening both connections
C7_Witness ==
    /\ deploy_result = "True"
    /\ conn_opened = 2
    /\ conn_open = 0

\* a deployment that failed inside the verification block
C7_WitnessFailure ==
    /\ deploy_result = "False"
    /\ deploy_failed_at = "verify_query"
    /\ conn_open = 0

\* C7 as stated: at most one explicit connection is opened per attempt, and
\* none is open once the function has returned.
C7_Original ==
    /\ conn_opened <= 1
    /\ deploy_result # "none" => conn_open = 0

\* C8 as amended: the stages run in the fixed order, each after the previous
\* one completed; the date filter is left out exactly when the cleaned table
\* has no issue_d column; a stage that fails is the last one run; the
\* deployer runs only with --deploy and after the reporter.
C8_StageOrder ==
    /\ Len(stages) > 0 => stages[1].stage = "type_analysis"
    /\ \A i \in 1..(Len(stages) - 1) :
         /\ stages[i].outcome = "ok"
         /\ \/ StageRank(stages[i + 1].stage) = StageRank(stages[i].stage) + 1
            \/ /\ stages[i].stage = "cleaner"
               /\ stages[i + 1].stage = "completeness_filter"
               /\ "issue_d" \notin df.cols
    /\ \A i \in 1..Len(stages) :
         stages[i].stage = "deployer" =>
            deploy_mode /\ StageOutcome("reporter") = "ok"

\* a deployed run in which the date filter was left out
C8_Witness ==
    /\ pc = "exited"
    /\ StageOutcome("deployer") = "ok"
    /\ StageOutcome("date_filter") = "not run"
    /\ StageOutcome("completeness_filter") = "ok"

\* C8 as stated: the i-th stage run is the i-th stage of the fixed order.
C8_Original ==
    /\ \A i \in 1..Len(stages) : stages[i].stage = StageOrder[i]
    /\ \A i \in 1..(Len(stages) - 1) : stages[i].outcome = "ok"
    /\ \A i \in 1..Len(stages) :
         stages[i].stage = "deployer" =>
            deploy_mode /\ StageOutcome("reporter") = "ok"

\* C10: the store changes only after the connectivity query succeeded, the
\* fact table is replaced only after every dimension table, and the replaced
\* tables are a prefix of: dimension tables in mapping order, then fact table.
C10_WriteOrder ==
    LET order == KeyList(dim_tables) \o <<"loans_fact_yourname">>
    IN /\ (\E n \in StoreNames : store[n] \in {"fresh", "dropped"}) => test_ok
       /\ deploy_failed_at \in {"create_engine", "connect", "test_query"} =>
            \A n \in StoreNames : store[n] \in {"absent", "stale"}
       /\ store["loans_fact_yourname"] = "fresh" =>
            \A i \in 1..Len(dim_tables) : store[dim_tables[i].name] = "fresh"
       /\ Len(written) <= Len(order)
       /\ written = SubSeq(order, 1, Len(written))
       /\ {n \in StoreNames : store[n] = "fresh"} = Range(written)

\* the second dimension write raised after the first table had been replaced
C10_Witness ==
    /\ deploy_failed_at = "to_sql_dim"
    /\ Len(written) = 1
    /\ Len(dim_tables) >= 2
    /\ deploy_result = "False"

====
